---- MODULE Spec2Model ----
(***************************************************************************)
(* Model of the shuttle reservation core of app.py: the reservations       *)
(* table (the ledger), the available_dates table (the registry), and the   *)
(* handlers add_reservation, cancel_reservation, add_available_date,       *)
(* remove_available_date, the batch add by weekday and init_db, both as    *)
(* whole calls (one caller at a time) and as the separate SQL statements   *)
(* of concurrently running callers on one database file.                   *)
(*                                                                         *)
(* A date is a day number; str(date) is its ISO text, whose text order is  *)
(* the day order.  A medical record number is an opaque string, written as *)
(* a small integer; names and phones are strings.  reservations is a bag of *)
(* rows: the columns id and created_at are never read by the code.         *)
(* available_dates is a bag of dates, each standing for its text.          *)
(***************************************************************************)
EXTENDS Integers, FiniteSets, Sequences, Bags

VARIABLES
    reservations,     \* the reservations table
    available_dates,  \* the available_dates table
    ret,              \* per caller, the value its latest call returned
    pc,               \* per caller, the statement of add_reservation it is at
    call,             \* per caller, the arguments of the call it is inside
    freed,            \* the rows the latest call deleted (none unless a cancel)
    removed,          \* the dates removed and not inserted again by an add since
    writer,           \* the caller holding the write lock of the file, or 0
    waited            \* the callers whose current or latest call met the lock

vars == <<reservations, available_dates, ret, pc, call, freed, removed, writer,
          waited>>

----------------------------------------------------------------------------
(* Program constants *)

patient_limit == 4
seat_limit == 6

\* '2026-03-05' is day 0 and '2026-03-10' day 5
MarchFifth == 0
MarchTenth == 5
default_dates == {MarchFifth, MarchTenth}

----------------------------------------------------------------------------
(* Bounds and input sets *)

\* patients who book the first date: one more than the patient quota
NumMrn == 5
\* patients who also book the second date
NumMrnOther == 1
\* patients of the credential scope and of the unvalidated-input scope
NumPatients == 2
NumInputMrn == 3
\* concurrent callers and the patients they book
NumProcs == 2
NumConcMrn == 3

\* the days an admin picks a batch range from, counted from 2026-03-05
NumDays == 8
\* patients of the open-date scope
NumOpenMrn == 4

\* new dates that concurrent callers add
NumNewDates == 2

MRNS == 1..NumMrn
Procs == 1..NumProcs
\* the caller of the one-at-a-time scopes
SeqCaller == CHOOSE p \in Procs : \A q \in Procs : p <= q

PatientsOn(d) == IF d = MarchFifth THEN 1..NumMrn ELSE 1..NumMrnOther

\* the familyCount values the booking form offers
FormFamily == {0, 1}
\* familyCount values a caller of add_reservation may pass
AnyFamily == {-2, -1, 0, 1, 2, 5}

Days == 0..(NumDays - 1)
\* '2026-04-01', the date the test script adds and the cleanup script removes
AprilFirst == MarchFifth + 27
\* the dates an admin adds and removes one by one
AdminDays == default_dates \cup {MarchFifth + 7, AprilFirst}
\* the dates of the open-date scope: a seeded one and one never added
OpenDates == {MarchFifth, MarchFifth + 1}

Names == {"A", "B"}
Phones == {"0900", "0911"}

----------------------------------------------------------------------------
(* The reservations table *)

Row(d, m, n, ph, f) ==
    [reserve_date |-> d, mrn |-> m, patient_name |-> n, phone |-> ph,
     family_count |-> f]

RECURSIVE SumOver(_, _)
\* sum of family_count over the rows of a result set, with multiplicity
SumOver(df, rows) ==
    IF rows = {} THEN 0
    ELSE LET r == CHOOSE x \in rows : TRUE
         IN  df[r] * r.family_count + SumOver(df, rows \ {r})

\* SELECT * FROM reservations WHERE reserve_date = ?
get_reservations(led, d) ==
    [r \in {x \in DOMAIN led : x.reserve_date = d} |-> led[r]]

\* SELECT * FROM reservations WHERE reserve_date = ? AND mrn = ?; fetchone()
already_booked(led, d, m) ==
    \E r \in DOMAIN led : r.reserve_date = d /\ r.mrn = m

\* len(df)
current_patients(df) == BagCardinality(df)

\* len(df) + df['family_count'].sum() if not df.empty else 0
current_people(df) ==
    IF DOMAIN df # {} THEN BagCardinality(df) + SumOver(df, DOMAIN df) ELSE 0

\* 1 + family_count
needed_seats(f) == 1 + f

----------------------------------------------------------------------------
(* Return values: (success, message) *)

Ret(ok, m) == [success |-> ok, msg |-> m]

NoCall == Ret(FALSE, <<"none">>)
DuplicateBooking == Ret(FALSE, <<"DuplicateBooking">>)
PatientQuotaExceeded == Ret(FALSE, <<"PatientQuotaExceeded", patient_limit>>)
SeatQuotaExceeded(remaining, needed) ==
    Ret(FALSE, <<"SeatQuotaExceeded", remaining, needed>>)
Booked == Ret(TRUE, <<"Booked">>)
Cancelled(m) == Ret(TRUE, <<"Cancelled", m>>)
NotFound == Ret(FALSE, <<"NotFound">>)

\* quota_check with Rule 1 written as > instead of >=
quota_check_patients_off_by_one(df, f) ==
    IF current_patients(df) > patient_limit THEN PatientQuotaExceeded
    ELSE IF current_people(df) + needed_seats(f) > seat_limit
         THEN SeatQuotaExceeded(seat_limit - current_people(df), needed_seats(f))
         ELSE Booked

\* Rule 1 and Rule 2 of add_reservation on the rows read for the date:
\* the failure returned, or Booked when the insert is to go ahead
quota_check(df, f) ==
    IF current_patients(df) >= patient_limit THEN PatientQuotaExceeded
    ELSE IF current_people(df) + needed_seats(f) > seat_limit
         THEN SeatQuotaExceeded(seat_limit - current_people(df), needed_seats(f))
         ELSE Booked

\* insert_reservation leaving the patient_name column out of the INSERT
insert_without_name(led, d, m, n, ph, f) ==
    led (+) SetToBag({Row(d, m, "", ph, f)})

\* INSERT INTO reservations (...) VALUES (...); commit
insert_reservation(led, d, m, n, ph, f) ==
    led (+) SetToBag({Row(d, m, n, ph, f)})

\* admit_result with the quota rules tried before the duplicate check
admit_result_quota_first(led, d, m, f) ==
    IF quota_check(get_reservations(led, d), f) # Booked
    THEN quota_check(get_reservations(led, d), f)
    ELSE IF already_booked(led, d, m) THEN DuplicateBooking ELSE Booked

\* the value add_reservation returns when run alone on the ledger led
admit_result(led, d, m, f) ==
    IF already_booked(led, d, m) THEN DuplicateBooking
    ELSE quota_check(get_reservations(led, d), f)

\* admit_ledger with the INSERT issued before the quota rules return
admit_ledger_insert_first(led, d, m, n, ph, f) ==
    IF admit_result(led, d, m, f) = DuplicateBooking
    THEN led
    ELSE insert_reservation(led, d, m, n, ph, f)

\* the table after add_reservation has run alone on the ledger led
admit_ledger(led, d, m, n, ph, f) ==
    IF admit_result(led, d, m, f) = Booked
    THEN insert_reservation(led, d, m, n, ph, f)
    ELSE led

\* the rows matching WHERE mrn = ? AND phone = ?
matching_credential(led, m, ph) ==
    [r \in {x \in DOMAIN led : x.mrn = m /\ x.phone = ph} |-> led[r]]

\* delete_by_credential without the commit: the DELETE is rolled back
delete_not_committed(led, m, ph) == led

\* delete_by_credential with WHERE mrn = ? alone
delete_by_mrn(led, m, ph) ==
    [r \in {x \in DOMAIN led : x.mrn # m} |-> led[r]]

\* DELETE FROM reservations WHERE mrn = ? AND phone = ?; commit
delete_by_credential(led, m, ph) ==
    [r \in {x \in DOMAIN led : ~(x.mrn = m /\ x.phone = ph)} |-> led[r]]

\* c.rowcount of that DELETE
rows_deleted(led, m, ph) == BagCardinality(matching_credential(led, m, ph))

\* the value cancel_reservation returns
cancel_result(led, m, ph) ==
    IF rows_deleted(led, m, ph) > 0 THEN Cancelled(m) ELSE NotFound

----------------------------------------------------------------------------
(* The available_dates table *)

\* str(date), 'YYYY-MM-DD', as its digits: day 0 is 2026-03-05 and March has
\* 31 days; the dashes stand at the same places in every text
date_str(d) ==
    LET mm == IF d + 5 <= 31 THEN 3 ELSE 4
        dd == IF d + 5 <= 31 THEN d + 5 ELSE d - 26
    IN  <<2, 0, 2, 6, mm \div 10, mm % 10, dd \div 10, dd % 10>>

\* date.weekday(): Monday is 0; 2026-03-05 is a Thursday
weekday(d) == (d + 3) % 7

\* the weekdays of the seeded dates, the ones a batch is asked for
BatchWeekdays == {weekday(d) : d \in default_dates}

\* the order of TEXT values under ORDER BY
text_less(a, b) ==
    \/ \E i \in 1..Len(a) :
          /\ i <= Len(b)
          /\ a[i] < b[i]
          /\ \A j \in 1..(i - 1) : a[j] = b[j]
    \/ /\ Len(a) < Len(b)
       /\ \A j \in 1..Len(a) : a[j] = b[j]

RECURSIVE get_available_dates(_)
\* SELECT date_value FROM available_dates ORDER BY date_value
get_available_dates(reg) ==
    IF reg = EmptyBag THEN <<>>
    ELSE LET d == CHOOSE x \in BagToSet(reg) :
                     \A y \in BagToSet(reg) : ~text_less(date_str(y), date_str(x))
         IN  <<d>> \o get_available_dates(reg (-) SetToBag({d}))

DateAdded(d) == Ret(TRUE, <<"DateAdded", d>>)
AlreadyExists(d) == Ret(FALSE, <<"AlreadyExists", d>>)
DateRemoved(d) == Ret(TRUE, <<"DateRemoved", d>>)
BatchAdded(count) == Ret(TRUE, <<"BatchAdded", count>>)
RangeError == Ret(FALSE, <<"RangeError">>)

\* a table whose date_value column is no key
no_primary_key(reg, d) == FALSE

\* date_value TEXT PRIMARY KEY: the INSERT raises sqlite3.IntegrityError
primary_key_violated(reg, d) == BagIn(d, reg)

\* the value add_available_date returns
add_date_result(reg, d) ==
    IF primary_key_violated(reg, d) THEN AlreadyExists(d) ELSE DateAdded(d)

\* INSERT INTO available_dates (date_value) VALUES (?); commit
insert_date(reg, d) ==
    IF primary_key_violated(reg, d) THEN reg ELSE reg (+) SetToBag({d})

\* DELETE FROM available_dates WHERE date_value = ?; commit
delete_date(reg, d) == [x \in BagToSet(reg) \ {d} |-> reg[x]]

\* the value remove_available_date returns
remove_date_result(reg, d) == DateRemoved(d)

\* a DELETE that took the reservations of the date with it
remove_date_cascade(led, d) ==
    [r \in {x \in DOMAIN led : x.reserve_date # d} |-> led[r]]

\* the reservations table after remove_available_date: its DELETE names the
\* available_dates table alone
remove_date_ledger(led, d) == led

RECURSIVE batch_loop(_, _, _, _, _)
\* while curr <= end_d: add the date on the target weekday, count successes
batch_loop(reg, curr, end_d, target_weekday, count) ==
    IF curr <= end_d
    THEN IF weekday(curr) = target_weekday
         THEN batch_loop(insert_date(reg, curr), curr + 1, end_d, target_weekday,
                         IF add_date_result(reg, curr).success
                         THEN count + 1 ELSE count)
         ELSE batch_loop(reg, curr + 1, end_d, target_weekday, count)
    ELSE [dates |-> reg, ret |-> BatchAdded(count)]

\* batch_add with the loop started on the day after start_d
batch_add_after_start(reg, start_d, end_d, target_weekday) ==
    IF start_d > end_d
    THEN [dates |-> reg, ret |-> RangeError]
    ELSE batch_loop(reg, start_d + 1, end_d, target_weekday, 0)

\* the batch button: the table it leaves and the message it shows
batch_add(reg, start_d, end_d, target_weekday) ==
    IF start_d > end_d
    THEN [dates |-> reg, ret |-> RangeError]
    ELSE batch_loop(reg, start_d, end_d, target_weekday, 0)

RECURSIVE insert_or_ignore(_, _)
\* for d in default_dates: INSERT OR IGNORE INTO available_dates
insert_or_ignore(reg, dates) ==
    IF dates = {} THEN reg
    ELSE LET d == CHOOSE x \in dates : TRUE
         IN  insert_or_ignore(IF BagIn(d, reg) THEN reg
                              ELSE reg (+) SetToBag({d}),
                              dates \ {d})

\* init_db on an existing file: both tables exist, the seeding runs when
\* SELECT count(*) FROM available_dates is 0
seed_default_dates(reg) ==
    IF BagCardinality(reg) = 0 THEN insert_or_ignore(reg, default_dates) ELSE reg

\* the dates a call put into the table
inserted(before, after) == BagToSet(after) \ BagToSet(before)

----------------------------------------------------------------------------
(* Whole calls, one caller at a time *)

add_reservation(d, m, n, ph, f) ==
    /\ \A p \in Procs : pc[p] = "idle"
    /\ ret' = [ret EXCEPT ![SeqCaller] = admit_result(reservations, d, m, f)]
    /\ reservations' = admit_ledger(reservations, d, m, n, ph, f)
    /\ freed' = {}
    /\ UNCHANGED <<available_dates, pc, call, removed, writer, waited>>

cancel_reservation(m, ph) ==
    /\ \A p \in Procs : pc[p] = "idle"
    /\ reservations' = delete_by_credential(reservations, m, ph)
    /\ ret' = [ret EXCEPT ![SeqCaller] = cancel_result(reservations, m, ph)]
    /\ freed' = DOMAIN matching_credential(reservations, m, ph)
    /\ UNCHANGED <<available_dates, pc, call, removed, writer, waited>>

add_available_date(d) ==
    /\ \A p \in Procs : pc[p] = "idle"
    /\ available_dates' = insert_date(available_dates, d)
    /\ ret' = [ret EXCEPT ![SeqCaller] = add_date_result(available_dates, d)]
    /\ removed' = removed \ inserted(available_dates, available_dates')
    /\ freed' = {}
    /\ UNCHANGED <<reservations, pc, call, writer, waited>>

remove_available_date(d) ==
    /\ \A p \in Procs : pc[p] = "idle"
    /\ available_dates' = delete_date(available_dates, d)
    /\ reservations' = remove_date_ledger(reservations, d)
    /\ ret' = [ret EXCEPT ![SeqCaller] = remove_date_result(available_dates, d)]
    /\ removed' = removed \cup {d}
    /\ freed' = {}
    /\ UNCHANGED <<pc, call, writer, waited>>

\* main: the button of the batch add by weekday
batch_add_by_weekday(start_d, end_d, target_weekday) ==
    /\ \A p \in Procs : pc[p] = "idle"
    /\ LET out == batch_add(available_dates, start_d, end_d, target_weekday)
       IN  /\ available_dates' = out.dates
           /\ ret' = [ret EXCEPT ![SeqCaller] = out.ret]
    /\ removed' = removed \ inserted(available_dates, available_dates')
    /\ freed' = {}
    /\ UNCHANGED <<reservations, pc, call, writer, waited>>

\* init_db run again on the existing database file
init_db ==
    /\ \A p \in Procs : pc[p] = "idle"
    /\ available_dates' = seed_default_dates(available_dates)
    /\ freed' = {}
    /\ UNCHANGED <<reservations, ret, pc, call, removed, writer, waited>>

----------------------------------------------------------------------------
(* The statements of concurrently running callers *)

Args(d, m, n, ph, f) == [d |-> d, m |-> m, n |-> n, ph |-> ph, f |-> f]
NoArgs == Args(0, 0, "", "", 0)

\* connect; SELECT ... WHERE reserve_date = ? AND mrn = ?; fetchone
admit_check_duplicate(p, d, m, n, ph, f) ==
    /\ pc[p] = "idle"
    /\ IF already_booked(reservations, d, m)
       THEN /\ ret' = [ret EXCEPT ![p] = DuplicateBooking]
            /\ UNCHANGED <<pc, call>>
       ELSE /\ pc' = [pc EXCEPT ![p] = "stats"]
            /\ call' = [call EXCEPT ![p] = Args(d, m, n, ph, f)]
            /\ UNCHANGED ret
    /\ UNCHANGED <<reservations, available_dates, freed, removed, writer, waited>>

\* df = get_reservations(reserve_date); Rule 1; Rule 2
admit_read_stats(p) ==
    /\ pc[p] = "stats"
    /\ LET q == quota_check(get_reservations(reservations, call[p].d), call[p].f)
       IN  IF q = Booked
           THEN /\ pc' = [pc EXCEPT ![p] = "insert"]
                /\ UNCHANGED <<ret, call>>
           ELSE /\ ret' = [ret EXCEPT ![p] = q]
                /\ pc' = [pc EXCEPT ![p] = "idle"]
                /\ call' = [call EXCEPT ![p] = NoArgs]
    /\ waited' = waited \ {p}
    /\ UNCHANGED <<reservations, available_dates, freed, removed, writer>>

\* INSERT; commit; close; return True
admit_insert(p) ==
    /\ pc[p] = "insert"
    /\ reservations' = insert_reservation(reservations, call[p].d, call[p].m,
                                          call[p].n, call[p].ph, call[p].f)
    /\ ret' = [ret EXCEPT ![p] = Booked]
    /\ pc' = [pc EXCEPT ![p] = "idle"]
    /\ call' = [call EXCEPT ![p] = NoArgs]
    /\ UNCHANGED <<available_dates, freed, removed, writer, waited>>

\* cancel_reservation is one DELETE statement and its commit
cancel_statement(p, m, ph) ==
    /\ pc[p] = "idle"
    /\ reservations' = delete_by_credential(reservations, m, ph)
    /\ ret' = [ret EXCEPT ![p] = cancel_result(reservations, m, ph)]
    /\ UNCHANGED <<available_dates, pc, call, freed, removed, writer, waited>>

----------------------------------------------------------------------------
(* The write lock of the database file.  c.execute of an INSERT or DELETE
   opens a transaction and takes the lock, conn.commit() releases it; while
   another connection holds it, the statement waits in the busy handler of
   sqlite3.connect(DB_FILE), whose timeout is the default of 5 seconds, and
   then raises sqlite3.OperationalError.  SELECT is not held up by it. *)

\* the call ended by raising e: no value is returned
Raise(e) == [success |-> FALSE, msg |-> <<"raise", e>>]
OperationalError == Raise("sqlite3.OperationalError: database is locked")

\* the positions before c.execute of a write statement
WriteStatements == {"insert", "delete", "insert_date", "delete_date"}

\* the timeout of the connection runs out while w still holds the lock
busy_timeout_expires(w) == w # 0

\* a store on which c.execute never waits for another connection
write_lock_ignored(w) == TRUE

\* no connection holds the write lock
write_lock_free(w) == w = 0

\* the caller opens a connection for a call that is one write statement
invoke(p, statement, args) ==
    /\ pc[p] = "idle"
    /\ pc' = [pc EXCEPT ![p] = statement]
    /\ call' = [call EXCEPT ![p] = args]
    /\ waited' = waited \ {p}
    /\ UNCHANGED <<reservations, available_dates, ret, freed, removed, writer>>

\* c.execute took the lock: the statement has run, conn.commit() is to come
acquire(p, statement, commit) ==
    /\ pc[p] = statement
    /\ write_lock_free(writer)
    /\ writer' = p
    /\ pc' = [pc EXCEPT ![p] = commit]
    /\ UNCHANGED <<reservations, available_dates, ret, call, freed, removed,
                   waited>>

\* conn.commit(); conn.close(); return value
finish(p, value) ==
    /\ writer' = 0
    /\ ret' = [ret EXCEPT ![p] = value]
    /\ pc' = [pc EXCEPT ![p] = "idle"]
    /\ call' = [call EXCEPT ![p] = NoArgs]
    /\ UNCHANGED <<freed, waited>>

\* add_reservation: c.execute of the INSERT
execute_insert(p) == acquire(p, "insert", "commit_insert")

\* add_reservation: conn.commit() and return True
commit_insert(p) ==
    /\ pc[p] = "commit_insert"
    /\ reservations' = insert_reservation(reservations, call[p].d, call[p].m,
                                          call[p].n, call[p].ph, call[p].f)
    /\ finish(p, Booked)
    /\ UNCHANGED <<available_dates, removed>>

\* cancel_reservation: connect
invoke_cancel(p, m, ph) == invoke(p, "delete", Args(0, m, "", ph, 0))

\* cancel_reservation: c.execute of the DELETE, c.rowcount
execute_delete(p) == acquire(p, "delete", "commit_delete")

\* cancel_reservation: conn.commit() and the return on rows_deleted
commit_delete(p) ==
    /\ pc[p] = "commit_delete"
    /\ reservations' = delete_by_credential(reservations, call[p].m, call[p].ph)
    /\ finish(p, cancel_result(reservations, call[p].m, call[p].ph))
    /\ UNCHANGED <<available_dates, removed>>

\* add_available_date: connect
invoke_add_date(p, d) == invoke(p, "insert_date", Args(d, 0, "", "", 0))

\* add_available_date: c.execute of the INSERT; the primary key is checked
\* under the lock, and on sqlite3.IntegrityError the call closes and returns
execute_insert_date(p) ==
    /\ pc[p] = "insert_date"
    /\ write_lock_free(writer)
    /\ IF primary_key_violated(available_dates, call[p].d)
       THEN /\ ret' = [ret EXCEPT ![p] = AlreadyExists(call[p].d)]
            /\ pc' = [pc EXCEPT ![p] = "idle"]
            /\ call' = [call EXCEPT ![p] = NoArgs]
            /\ UNCHANGED writer
       ELSE /\ writer' = p
            /\ pc' = [pc EXCEPT ![p] = "commit_insert_date"]
            /\ UNCHANGED <<ret, call>>
    /\ UNCHANGED <<reservations, available_dates, freed, removed, waited>>

\* add_available_date: conn.commit(), success = True
commit_insert_date(p) ==
    /\ pc[p] = "commit_insert_date"
    /\ available_dates' = available_dates (+) SetToBag({call[p].d})
    /\ removed' = removed \ {call[p].d}
    /\ finish(p, DateAdded(call[p].d))
    /\ UNCHANGED reservations

\* remove_available_date: connect
invoke_remove_date(p, d) == invoke(p, "delete_date", Args(d, 0, "", "", 0))

\* remove_available_date: c.execute of the DELETE
execute_delete_date(p) == acquire(p, "delete_date", "commit_delete_date")

\* remove_available_date: conn.commit() and return True
commit_delete_date(p) ==
    /\ pc[p] = "commit_delete_date"
    /\ available_dates' = delete_date(available_dates, call[p].d)
    /\ reservations' = remove_date_ledger(reservations, call[p].d)
    /\ removed' = removed \cup {call[p].d}
    /\ finish(p, remove_date_result(available_dates, call[p].d))

\* c.execute of a write statement finds the lock held: the busy handler waits
busy_wait(p) ==
    /\ pc[p] \in WriteStatements
    /\ ~write_lock_free(writer)
    /\ p \notin waited
    /\ waited' = waited \cup {p}
    /\ UNCHANGED <<reservations, available_dates, ret, pc, call, freed, removed,
                   writer>>

\* the wait ran into the timeout: c.execute raises, and no handler has an
\* except clause for sqlite3.OperationalError
busy_timeout(p) ==
    /\ pc[p] \in WriteStatements
    /\ p \in waited
    /\ busy_timeout_expires(writer)
    /\ ret' = [ret EXCEPT ![p] = OperationalError]
    /\ pc' = [pc EXCEPT ![p] = "idle"]
    /\ call' = [call EXCEPT ![p] = NoArgs]
    /\ UNCHANGED <<reservations, available_dates, freed, removed, writer,
                   waited>>

----------------------------------------------------------------------------

Init ==
    /\ reservations = EmptyBag
    /\ available_dates = SetToBag(default_dates)
    /\ ret = [p \in Procs |-> NoCall]
    /\ pc = [p \in Procs |-> "idle"]
    /\ call = [p \in Procs |-> NoArgs]
    /\ freed = {}
    /\ removed = {}
    /\ writer = 0
    /\ waited = {}

(* Capacity scope: patients book with their own name and phone and a family
   count of the form; a patient who holds a reservation may submit the form
   again with any name and phone. *)
FirstBooking ==
    \E d \in default_dates : \E m \in PatientsOn(d) : \E f \in FormFamily :
        add_reservation(d, m, "A", "0900", f)

RepeatBooking ==
    \E r \in DOMAIN reservations : \E n \in Names, ph \in Phones, f \in FormFamily :
        add_reservation(r.reserve_date, r.mrn, n, ph, f)

Cancel ==
    \E m \in MRNS, ph \in Phones : cancel_reservation(m, ph)

Next == FirstBooking \/ RepeatBooking \/ Cancel

Spec == Init /\ [][Next]_vars

(* Credential scope: few patients, travelling alone, both dates, both phones *)
LedgerBooking ==
    \E d \in default_dates, m \in 1..NumPatients, ph \in Phones :
        add_reservation(d, m, "A", ph, 0)

LedgerCancel ==
    \E m \in 1..NumPatients, ph \in Phones : cancel_reservation(m, ph)

LedgerNext == LedgerBooking \/ LedgerCancel

LedgerSpec == Init /\ [][LedgerNext]_vars

(* Unvalidated-input scope: add_reservation called with any family count *)
InputBooking ==
    \E m \in 1..NumInputMrn, f \in AnyFamily :
        add_reservation(MarchFifth, m, "A", "0900", f)

InputCancel ==
    \E m \in 1..NumInputMrn : cancel_reservation(m, "0900")

InputNext == InputBooking \/ InputCancel

InputSpec == Init /\ [][InputNext]_vars

(* Concurrent scope: callers interleave statement by statement *)
ConcCheckDuplicate ==
    \E p \in Procs, m \in 1..NumConcMrn, f \in FormFamily :
        admit_check_duplicate(p, MarchFifth, m, "A", "0900", f)

ConcReadStats == \E p \in Procs : admit_read_stats(p)

ConcInsert == \E p \in Procs : admit_insert(p)

ConcCancel ==
    \E p \in Procs, m \in 1..NumConcMrn : cancel_statement(p, m, "0900")

ConcNext == ConcCheckDuplicate \/ ConcReadStats \/ ConcInsert \/ ConcCancel

ConcSpec == Init /\ [][ConcNext]_vars

(* Registry scope: an admin adds and removes dates, adds batches by weekday,
   and the application starts again *)
RegAddDate == \E d \in AdminDays : add_available_date(d)

RegRemoveDate == \E d \in AdminDays : remove_available_date(d)

RegBatchAdd ==
    \E start_d \in Days, end_d \in Days, wd \in BatchWeekdays :
        batch_add_by_weekday(start_d, end_d, wd)

RegInitDb == init_db

RegistryNext == RegAddDate \/ RegRemoveDate \/ RegBatchAdd \/ RegInitDb

RegistrySpec == Init /\ [][RegistryNext]_vars

(* Open-date scope: dates are added and removed while patients, each with
   one family member, book and cancel on them *)
OpenAddDate == \E d \in OpenDates : add_available_date(d)

OpenRemoveDate == \E d \in OpenDates : remove_available_date(d)

OpenBooking ==
    \E d \in OpenDates, m \in 1..NumOpenMrn : add_reservation(d, m, "A", "0900", 1)

OpenCancel == \E m \in 1..NumOpenMrn : cancel_reservation(m, "0900")

OpenDateNext == OpenAddDate \/ OpenRemoveDate \/ OpenBooking \/ OpenCancel

OpenDateSpec == Init /\ [][OpenDateNext]_vars

(* Lock scope: on one database file the admin adds and removes a date while
   the other callers book and cancel for one patient, statement by statement *)
Admin == SeqCaller
Patients == Procs \ {Admin}

LockAdmit ==
    \E p \in Patients : admit_check_duplicate(p, MarchFifth, 1, "A", "0900", 0)

LockReadStats == \E p \in Patients : admit_read_stats(p)

LockInsert == \E p \in Patients : execute_insert(p) \/ commit_insert(p)

LockCancel ==
    \E p \in Patients : invoke_cancel(p, 1, "0900") \/ execute_delete(p)
                            \/ commit_delete(p)

LockAddDate ==
    \/ invoke_add_date(Admin, MarchFifth)
    \/ execute_insert_date(Admin)
    \/ commit_insert_date(Admin)

LockRemoveDate ==
    \/ invoke_remove_date(Admin, MarchFifth)
    \/ execute_delete_date(Admin)
    \/ commit_delete_date(Admin)

LockBusyWait == \E p \in Procs : busy_wait(p)

LockBusyTimeout == \E p \in Procs : busy_timeout(p)

LockNext ==
    \/ LockAdmit \/ LockReadStats \/ LockInsert \/ LockCancel
    \/ LockAddDate \/ LockRemoveDate \/ LockBusyWait \/ LockBusyTimeout

LockSpec == Init /\ [][LockNext]_vars

\* the statements of caller p inside a call
CallerStep(p) ==
    \/ admit_read_stats(p)
    \/ execute_insert(p) \/ commit_insert(p)
    \/ execute_delete(p) \/ commit_delete(p)
    \/ execute_insert_date(p) \/ commit_insert_date(p)
    \/ execute_delete_date(p) \/ commit_delete_date(p)
    \/ busy_wait(p) \/ busy_timeout(p)

\* every caller is a running process: a call that can go on does go on
FairLockSpec == LockSpec /\ \A p \in Procs : WF_vars(CallerStep(p))

(* Add-date scope: callers add new dates concurrently and no wait runs out *)
NewDates == {MarchFifth + i : i \in 1..NumNewDates}

AddDateInvoke == \E p \in Procs, d \in NewDates : invoke_add_date(p, d)

AddDateExecute == \E p \in Procs : execute_insert_date(p)

AddDateCommit == \E p \in Procs : commit_insert_date(p)

AddDateBusyWait == \E p \in Procs : busy_wait(p)

AddDateNext ==
    AddDateInvoke \/ AddDateExecute \/ AddDateCommit \/ AddDateBusyWait

AddDateSpec == Init /\ [][AddDateNext]_vars

----------------------------------------------------------------------------
(* The capacity snapshot of a date, as the specification defines it *)

RowsOn(led, d) == {r \in DOMAIN led : r.reserve_date = d}

RECURSIVE CountRows(_, _)
CountRows(led, rows) ==
    IF rows = {} THEN 0
    ELSE LET r == CHOOSE x \in rows : TRUE
         IN  led[r] + CountRows(led, rows \ {r})

RECURSIVE CountSeats(_, _)
CountSeats(led, rows) ==
    IF rows = {} THEN 0
    ELSE LET r == CHOOSE x \in rows : TRUE
         IN  led[r] * (1 + r.family_count) + CountSeats(led, rows \ {r})

PatientCountIn(led, d) == CountRows(led, RowsOn(led, d))
TotalSeatsIn(led, d) == CountSeats(led, RowsOn(led, d))
PatientCount(d) == PatientCountIn(reservations, d)
TotalSeats(d) == TotalSeatsIn(reservations, d)
HasReservation(d, m) == \E r \in RowsOn(reservations, d) : r.mrn = m

\* what add_reservation, called in the current state, returns and leaves stored
WouldReturn(d, m, f) == admit_result(reservations, d, m, f)
WouldStore(d, m, n, ph, f) == admit_ledger(reservations, d, m, n, ph, f)

\* the failures add_reservation returns; cancel_reservation returns none of them
IsAdmitFailure(v) ==
    \/ v = DuplicateBooking
    \/ v = PatientQuotaExceeded
    \/ v.msg[1] = "SeatQuotaExceeded"

----------------------------------------------------------------------------
(* C1: with calls run one at a time and family counts of 0 or 1, every date
   has at most 4 patients and at most 6 occupied seats. *)
CapacityInvariant ==
    \A d \in default_dates :
        PatientCount(d) <= patient_limit /\ TotalSeats(d) <= seat_limit

\* a date filled to both ceilings by a successful admission
FullShuttle ==
    /\ ret[SeqCaller] = Booked
    /\ \E d \in default_dates :
          PatientCount(d) = patient_limit /\ TotalSeats(d) = seat_limit

(* C2: with admissions interleaved statement by statement, every date still
   has at most 4 patients and at most 6 occupied seats. *)
ConcurrentCapacityInvariant ==
    \A r \in DOMAIN reservations :
        /\ PatientCount(r.reserve_date) <= patient_limit
        /\ TotalSeats(r.reserve_date) <= seat_limit

(* C3: in every reachable state, an admission for a (date, patient) that
   already holds a reservation returns DuplicateBooking and stores nothing,
   whatever the capacity of the date and whatever name, phone and family
   count are passed. *)
DuplicateAlwaysRejected ==
    \A r \in DOMAIN reservations :
        \A n \in Names, ph \in Phones, f \in AnyFamily :
            /\ WouldReturn(r.reserve_date, r.mrn, f) = DuplicateBooking
            /\ WouldStore(r.reserve_date, r.mrn, n, ph, f) = reservations

\* a duplicate was rejected on the first date while it was patient-full
DuplicateOnFullDate ==
    /\ ret[SeqCaller] = DuplicateBooking
    /\ PatientCount(MarchFifth) = patient_limit
    /\ PatientCount(MarchTenth) = 0

(* C4: the ledger never holds two reservations of one patient on one date,
   also when admissions are interleaved statement by statement. *)
UniquePatientPerDate ==
    \A r1 \in DOMAIN reservations :
        /\ reservations[r1] = 1
        /\ \A r2 \in DOMAIN reservations :
              (r1.reserve_date = r2.reserve_date /\ r1.mrn = r2.mrn) => r1 = r2

(* C5: every stored reservation has a family count of 0 or 1, an admission
   with any other family count having been refused. *)
StoredFamilyCountValid ==
    \A r \in DOMAIN reservations : r.family_count \in FormFamily

(* C6, as stated: from every reachable state in which a patient holds a
   reservation on a date, cancel with that patient and phone followed at
   once by an admission of the patient on the date succeeds, with a family
   count of 0 and with a family count of 1. *)
CancelThenAdmitAnyFamily ==
    \A r \in DOMAIN reservations : \A f \in FormFamily :
        admit_result(delete_by_credential(reservations, r.mrn, r.phone),
                     r.reserve_date, r.mrn, f) = Booked

(* C6, amended: ... succeeds when the family count of the admission is at
   most the family count of the cancelled reservation. *)
CancelThenAdmitNoMoreFamily ==
    \A r \in DOMAIN reservations : \A f \in FormFamily :
        f <= r.family_count
        => /\ cancel_result(reservations, r.mrn, r.phone) = Cancelled(r.mrn)
           /\ admit_result(delete_by_credential(reservations, r.mrn, r.phone),
                           r.reserve_date, r.mrn, f) = Booked

\* a cancel has just taken a reservation with family off a full date
CancelFreedFullDate ==
    \E r \in freed :
        /\ r.family_count = 1
        /\ ret[SeqCaller] = Cancelled(r.mrn)
        /\ PatientCount(r.reserve_date) = patient_limit - 1
        /\ TotalSeats(r.reserve_date) = seat_limit - 2

(* C7: in every reachable state, an admission with a family count of 0 or
   1 succeeds exactly when the patient holds no reservation on the date, the
   date has fewer than 4 patients and the seats it needs fit within 6; on
   success the ledger gains exactly the record passed, the date lists one
   reservation more, with the name passed, and every other date lists what
   it listed. *)
AdmissionDecision ==
    \A d \in default_dates, m \in MRNS, f \in FormFamily :
        LET ok == /\ ~HasReservation(d, m)
                  /\ PatientCount(d) < patient_limit
                  /\ TotalSeats(d) + 1 + f <= seat_limit
        IN  /\ WouldReturn(d, m, f).success <=> ok
            /\ ok => \A n \in Names, ph \in Phones :
                       LET after == WouldStore(d, m, n, ph, f)
                       IN  /\ after = reservations
                                        (+) SetToBag({Row(d, m, n, ph, f)})
                           /\ PatientCountIn(after, d) = PatientCount(d) + 1
                           /\ \E r \in RowsOn(after, d) :
                                 r.mrn = m /\ r.patient_name = n
                           /\ \A d2 \in default_dates \ {d} :
                                 /\ RowsOn(after, d2) = RowsOn(reservations, d2)
                                 /\ \A r \in RowsOn(after, d2) :
                                       after[r] = reservations[r]

\* the admission that filled the first date while the second held a booking
AdmittedLastPatient ==
    /\ ret[SeqCaller] = Booked
    /\ PatientCount(MarchFifth) = patient_limit
    /\ PatientCount(MarchTenth) = 1

(* C8: in every reachable state, a non-duplicate admission on a date with
   4 patients returns PatientQuotaExceeded; on a date with fewer patients
   and too few seats it returns SeatQuotaExceeded with 6 - totalSeats
   remaining and 1 + family needed, and the remaining seats are never
   negative. *)
QuotaErrorReported ==
    \A d \in default_dates, m \in MRNS, f \in AnyFamily :
        ~HasReservation(d, m)
        => /\ PatientCount(d) >= patient_limit
                => WouldReturn(d, m, f) = PatientQuotaExceeded
           /\ (PatientCount(d) < patient_limit
                 /\ TotalSeats(d) + 1 + f > seat_limit)
                => /\ WouldReturn(d, m, f) =
                        SeatQuotaExceeded(seat_limit - TotalSeats(d), 1 + f)
                   /\ seat_limit - TotalSeats(d) >= 0

(* C9: a step in which add_reservation returns a failure leaves the ledger
   and the registry of available dates as they were. *)
FailedAdmitChangesNothing ==
    [][IsAdmitFailure(ret'[SeqCaller])
       => /\ reservations' = reservations
          /\ available_dates' = available_dates]_vars

\* an admission was refused for want of seats on a date holding reservations
RefusedForSeats ==
    /\ ret[SeqCaller] = SeatQuotaExceeded(0, 1)
    /\ TotalSeats(MarchFifth) = seat_limit
    /\ available_dates = SetToBag(default_dates)

(* C10: cancel deletes exactly the reservations whose patient id and phone
   both match, on every date, and leaves every other reservation alone; when
   none matches it returns NotFound and the ledger is unchanged. *)
CancelDeletesExactlyMatching ==
    [][\A m \in 1..NumPatients, ph \in Phones :
         cancel_reservation(m, ph)
         => LET hit == {r \in DOMAIN reservations : r.mrn = m /\ r.phone = ph}
            IN  /\ DOMAIN reservations' = DOMAIN reservations \ hit
                /\ \A r \in DOMAIN reservations' :
                      reservations'[r] = reservations[r]
                /\ hit = {} => /\ ret'[SeqCaller] = NotFound
                               /\ reservations' = reservations
                /\ hit # {} => ret'[SeqCaller] = Cancelled(m)]_vars

\* a cancel took the patient's bookings off both dates and left the booking
\* of another patient who gave the same phone
CancelledOnBothDates ==
    /\ \A d \in default_dates : \E r \in freed : r.reserve_date = d
    /\ \E r \in freed : ret[SeqCaller] = Cancelled(r.mrn)
    /\ \E r \in freed, k \in DOMAIN reservations :
          k.phone = r.phone /\ k.mrn # r.mrn

----------------------------------------------------------------------------
\* how often a date stands in the registry
CopiesOf(d) == IF BagIn(d, available_dates) THEN available_dates[d] ELSE 0

\* listAvailableDates in the current state
ListedDates == get_available_dates(available_dates)

(* C11: in every reachable state no date stands in the registry twice, the
   listing of the registry is strictly ascending in date order, and
   add_available_date of a date already in the registry returns
   AlreadyExists and leaves the registry and its listing as they are. *)
AddExistingDateRefused ==
    /\ \A d \in BagToSet(available_dates) :
          /\ CopiesOf(d) = 1
          /\ add_date_result(available_dates, d) = AlreadyExists(d)
          /\ insert_date(available_dates, d) = available_dates
          /\ get_available_dates(insert_date(available_dates, d)) = ListedDates
    /\ Len(ListedDates) = BagCardinality(available_dates)
    /\ \A i \in 1..(Len(ListedDates) - 1) : ListedDates[i] < ListedDates[i + 1]

\* a second add of 2026-04-01 was refused with four dates listed
AddedDateTwice ==
    /\ ret[SeqCaller] = AlreadyExists(AprilFirst)
    /\ ListedDates = <<MarchFifth, MarchTenth, MarchFifth + 7, AprilFirst>>

(* C12: a remove_available_date step for a date that is not in the registry
   fails and leaves the registry as it is; for a date in the registry it
   succeeds and deletes the date. *)
RemoveAbsentDateFails ==
    [][\A d \in AdminDays :
         remove_available_date(d)
         => IF BagIn(d, available_dates)
            THEN /\ ret'[SeqCaller].success
                 /\ ~BagIn(d, available_dates')
            ELSE /\ ~ret'[SeqCaller].success
                 /\ available_dates' = available_dates]_vars

(* C13: in every reachable state, a batch add over start..end with
   start <= end leaves the registry with exactly the dates of the range on
   the weekday that it lacked added to it, returns their number, and returns
   0 and changes nothing when run again; with start > end it reports the
   range error and leaves the registry as it is. *)
BatchAddsMissingWeekdays ==
    \A start_d \in Days, end_d \in Days, wd \in BatchWeekdays :
        LET matching == {d \in start_d..end_d : weekday(d) = wd}
            missing == matching \ BagToSet(available_dates)
            out == batch_add(available_dates, start_d, end_d, wd)
            again == batch_add(out.dates, start_d, end_d, wd)
        IN  IF start_d <= end_d
            THEN /\ out.ret = BatchAdded(Cardinality(missing))
                 /\ out.dates = available_dates (+) SetToBag(missing)
                 /\ again.ret = BatchAdded(0)
                 /\ again.dates = out.dates
            ELSE /\ out.ret = RangeError
                 /\ out.dates = available_dates

\* a batch added one of the two Thursdays of its range, the other being there
BatchSkippedExisting ==
    /\ ret[SeqCaller] = BatchAdded(1)
    /\ removed = {MarchTenth}
    /\ ListedDates = <<MarchFifth, MarchFifth + 7>>

(* C14: a remove_available_date step succeeds whatever reservations the date
   holds, takes the date out of the registry, leaves the ledger as it is,
   and a later admission on the date is still decided by the reservations
   the date held. *)
RemoveLeavesLedger ==
    [][\A d \in OpenDates :
         remove_available_date(d)
         => /\ ret'[SeqCaller].success
            /\ ~BagIn(d, available_dates')
            /\ reservations' = reservations
            /\ \A m \in 1..NumOpenMrn, f \in FormFamily :
                  admit_result(reservations', d, m, f).success
                  <=> /\ ~HasReservation(d, m)
                      /\ PatientCount(d) < patient_limit
                      /\ TotalSeats(d) + 1 + f <= seat_limit]_vars

\* an admission was refused for want of seats on a removed date
RefusedOnRemovedDate ==
    /\ ret[SeqCaller] = SeatQuotaExceeded(0, 2)
    /\ MarchFifth \in removed
    /\ ~BagIn(MarchFifth, available_dates)
    /\ TotalSeats(MarchFifth) = seat_limit

(* C15: an add_reservation step for a date that is not in the registry
   fails and inserts no reservation. *)
AdmitOnlyOnOpenDate ==
    [][\A d \in OpenDates, m \in 1..NumOpenMrn :
         (add_reservation(d, m, "A", "0900", 1) /\ ~BagIn(d, available_dates))
         => /\ ~ret'[SeqCaller].success
            /\ reservations' = reservations]_vars

(* C18: a date that remove_available_date has removed, and that no add has
   inserted since, is not in the registry. *)
RemovedDateStaysRemoved ==
    \A d \in removed : ~BagIn(d, available_dates)

\* the result the specification names for a failed storage operation
StorageError == Ret(FALSE, <<"StorageError">>)

(* C16: a step in which the store fails a call, the write lock being held
   by another caller until the timeout, returns StorageError to the caller
   and leaves both tables as they were. *)
StorageFailureReturned ==
    [][\A p \in Procs :
         busy_timeout(p)
         => /\ ret'[p] = StorageError
            /\ reservations' = reservations
            /\ available_dates' = available_dates]_vars

\* the call of caller p has ended by returning a value
Returned(p) == pc[p] = "idle" /\ ret[p].msg[1] # "raise"

(* C17: under weak fairness of every caller's statements, every call that
   has been invoked eventually returns a result, whatever the other callers
   do. *)
EveryCallReturns ==
    \A p \in Procs : (pc[p] # "idle") ~> Returned(p)

\* every invoked call comes to its end, by a return or by a raise: no caller
\* waits for another for ever
EveryCallEnds ==
    \A p \in Procs : (pc[p] # "idle") ~> (pc[p] = "idle")

(* C19: when callers add new dates concurrently, no date stands in the
   registry twice, at most one caller holds an uncommitted INSERT, no two
   callers were told they added the same date, and a caller told that a date
   exists or that it added it finds the date in the registry once. *)
ConcurrentAddOnce ==
    /\ \A d \in NewDates : CopiesOf(d) <= 1
    /\ \A p \in Procs, q \in Procs :
          (pc[p] = "commit_insert_date" /\ pc[q] = "commit_insert_date") => p = q
    /\ \A d \in NewDates, p \in Procs :
          /\ ret[p] = AlreadyExists(d) => CopiesOf(d) = 1
          /\ ret[p] = DateAdded(d)
                => /\ CopiesOf(d) = 1
                   /\ \A q \in Procs \ {p} : ret[q] # DateAdded(d)

\* two calls for one new date have ended, the one that waited for the lock
\* with AlreadyExists, the other with success
OneAddedOneRefused ==
    \E d \in NewDates, p \in Procs, q \in Procs :
        /\ pc[p] = "idle" /\ ret[p] = DateAdded(d)
        /\ pc[q] = "idle" /\ ret[q] = AlreadyExists(d)
        /\ q \in waited
        /\ CopiesOf(d) = 1

====
